---- MODULE Spec2Model ----
(***************************************************************************)
(* Model of syncq.Queue (src/syncq/syncq.go): an unbounded multi-producer, *)
(* multi-consumer queue built from one dispatch goroutine (goqueue) and    *)
(* four unbuffered channels (pushc, popc, shutdown, done).                 *)
(*                                                                         *)
(* Go's select is modelled as the runtime executes it: a goroutine that    *)
(* reaches a select polls its cases once, takes one of the ready cases     *)
(* (any of them, the runtime picks at random) and otherwise blocks; a      *)
(* blocked goroutine is completed by the first counterpart that arrives    *)
(* (a rendezvous on an unbuffered channel) or by the close of one of its   *)
(* channels, which wakes every goroutine blocked on it in the same step.   *)
(* A goroutine's purely local code that follows a channel operation is     *)
(* executed in the step of that operation, and a call is entered in the    *)
(* step of its first channel operation.  The variable last records the     *)
(* call that returned most recently, with its result.                      *)
(***************************************************************************)
EXTENDS Integers, Sequences, FiniteSets, Bags, TLC

\* Bounds of the model: calls made over one run, and canceled contexts among them.
MaxPush == 3
MaxPop == 3
MaxLife == 2
MaxCancel == 1

Producers == {"p1", "p2"}
Consumers == {"c1", "c2"}
Callers == {"l1", "l2"}

\* The zero value of the element type E; the element of the k-th Push call, made by
\* producer p, is <<p, k>>.
Zero == <<"", 0>>

\* The calls the clients make over one run: at most push Push calls, pop Pop calls,
\* life calls among the operations ops, and cancel canceled contexts.
Workloads ==
  { [push |-> MaxPush, pop |-> MaxPop, life |-> 0, ops |-> {}, cancel |-> MaxCancel],
    [push |-> MaxPush - 1, pop |-> MaxPop, life |-> MaxLife, ops |-> {"Close"},
     cancel |-> 0],
    [push |-> MaxPush - 1, pop |-> MaxPop - 1, life |-> MaxLife, ops |-> {"Shutdown"},
     cancel |-> 0],
    [push |-> MaxPush - 2, pop |-> MaxPop - 2, life |-> MaxLife,
     ops |-> {"Close", "Shutdown", "WaitEmpty"}, cancel |-> MaxCancel] }

VARIABLES
  load,       \* the calls the clients make in this run (one of Workloads)
  closed,     \* closed[c]: channel q.c has been closed (pushc, popc, shutdown, done)
  size,       \* q.size
  total,      \* q.total
  gpc,        \* goqueue: "poll" (at the select), "wait" (blocked in it), "exit", "exit2", "done"
  queue,      \* goqueue local: queue
  next,       \* goqueue local: next
  pushc,      \* goqueue local: pushc ("q.pushc" or "nil")
  popc,       \* goqueue local: popc ("q.popc" or "nil")
  prod,       \* prod[p]: the Push call of producer p
  cons,       \* cons[c]: the Pop call of consumer c
  life,       \* life[l]: the Close, Shutdown or WaitEmpty call of caller l
  npush,      \* Push calls made
  npop,       \* Pop calls made
  nlife,      \* Close, Shutdown and WaitEmpty calls made
  ncancel,    \* calls made whose context is or gets canceled
  crashed,    \* "no", or the operation that panicked
  last,       \* history: the call that returned last, its result, and what held when it was made
  accepted,   \* history: the elements goqueue appended to queue, in order
  delivered,  \* history: the elements goqueue sent on popc, in order
  popped,     \* history: the bag of elements returned by Pop with open = true
  pushedOK,   \* history: the elements whose Push returned nil
  returned,   \* history: returned[op]: a call of op has returned (Close, Shutdown)
  orderly,    \* history: every Push call returned before the first Close or WaitEmpty call
  pushesAtClose  \* history: the Push calls made when a Close call first returned (-1: none has)

vars == <<load, closed, size, total, gpc, queue, next, pushc, popc, prod, cons, life,
          npush, npop, nlife, ncancel, crashed, last, accepted, delivered, popped,
          pushedOK, returned, orderly, pushesAtClose>>

Channels == {"pushc", "popc", "shutdown", "done"}
Ops == {"Close", "Shutdown", "WaitEmpty"}
Signals == {"Close", "Shutdown"}

\* A Push call: pc ("idle", "wait": blocked in the select, "sent": past the send,
\* "counted": past q.total.Add, "ret": woken, about to return res), the element e,
\* ctx (ctx.Done() is closed), and what held when the call was made: a Shutdown call
\* had returned, the queue was running (neither q.pushc nor q.shutdown closed).
IdleProd == [pc |-> "idle", e |-> Zero, ctx |-> FALSE, res |-> "none",
             afterShutdown |-> FALSE, running |-> FALSE]

\* A Pop call: pc ("idle", "wait", "got": past the receive, "ret"), the element x
\* received, ctx, and whether a Shutdown call had returned when the call was made.
IdleCons == [pc |-> "idle", x |-> Zero, ctx |-> FALSE, res |-> "none",
             afterShutdown |-> FALSE]

\* A Close, Shutdown or WaitEmpty call: pc ("idle", "check" and "close": in closeOnce,
\* "select", "wait": blocked in WaitEmpty's select, "recv": at <-q.done, "ret"), the
\* operation, the channel closeOnce works on, ctx.
IdleLife == [pc |-> "idle", op |-> "Close", c |-> "pushc", ctx |-> FALSE, res |-> "none"]

\* A returned call: Push with res "nil", "canceled" or "shutdown" and its element;
\* Pop with res "true" or "false" (open) and the element returned; Close and Shutdown
\* with res "returned"; WaitEmpty with res "true" or "false".
Ret(op, res, x, cx, afterShutdown, running) ==
  [op |-> op, res |-> res, x |-> x, ctx |-> cx,
   afterShutdown |-> afterShutdown, running |-> running]

Init ==
  /\ load \in Workloads
  /\ closed = [c \in Channels |-> FALSE]
  /\ size = 0
  /\ total = 0
  /\ gpc = "poll"
  /\ queue = <<>>
  /\ next = Zero
  /\ pushc = "q.pushc"
  /\ popc = "nil"
  /\ prod = [p \in Producers |-> IdleProd]
  /\ cons = [c \in Consumers |-> IdleCons]
  /\ life = [l \in Callers |-> IdleLife]
  /\ npush = 0
  /\ npop = 0
  /\ nlife = 0
  /\ ncancel = 0
  /\ crashed = "no"
  /\ last = Ret("none", "none", Zero, FALSE, FALSE, FALSE)
  /\ accepted = <<>>
  /\ delivered = <<>>
  /\ popped = EmptyBag
  /\ pushedOK = {}
  /\ returned = [o \in Signals |-> FALSE]
  /\ orderly = TRUE
  /\ pushesAtClose = -1

\* The goroutines of a kind are interchangeable, and an idle one keeps nothing of its
\* earlier calls: a call is made by the first idle goroutine of its kind.
Before(a, b) == \/ a = "p1" /\ b = "p2"
                \/ a = "c1" /\ b = "c2"
                \/ a = "l1" /\ b = "l2"

FirstIdle(a, S, calls) == \A b \in S : Before(b, a) => calls[b].pc # "idle"

\* A call may be made with a canceled context, or have its context canceled.
CanCancel(cx) == cx => ncancel < load.cancel

Cancels(cx) == IF cx THEN ncancel + 1 ELSE ncancel

----------------------------------------------------------------------------
(* goqueue *)

\* goqueue registering `<-pushc` in its select only while no element is staged.
RecvWaitsUnstaged == gpc = "wait" /\ pushc = "q.pushc" /\ popc = "nil"

\* goqueue is blocked in its select with `<-pushc` registered (pushc is not nil).
RecvWaits == gpc = "wait" /\ pushc = "q.pushc"

\* goqueue is blocked in its select with `popc <- next` registered (popc is not nil).
SendWaits == gpc = "wait" /\ popc = "q.popc"

\* A backlog that takes a new element at its head: queue = append([]E{e}, queue...)
AppendFront(q, e) == <<e>> \o q

\* goqueue receiving e and leaving the backlog as it is.
AppendNone(q, e) == q

\* queue = append(queue, e)
AppendElem(q, e) == Append(q, e)

\* The switch staging queue[0] without removing it from queue.
AfterEventKeep(q, nx, pu, po) ==
  LET empty == Len(q) = 0 /\ po = "nil"
      isClosed == pu = "nil"
      popReady == po = "nil"
  IN IF isClosed /\ empty
       THEN [exit |-> TRUE, queue |-> q, next |-> nx, popc |-> po]
     ELSE IF popReady /\ Len(q) > 0
       THEN [exit |-> FALSE, queue |-> q, next |-> Head(q), popc |-> "q.popc"]
     ELSE [exit |-> FALSE, queue |-> q, next |-> nx, popc |-> po]

\* The switch returning on closed alone, whatever queue and next hold.
AfterEventEarly(q, nx, pu, po) ==
  LET isClosed == pu = "nil"
      popReady == po = "nil"
  IN IF isClosed
       THEN [exit |-> TRUE, queue |-> q, next |-> nx, popc |-> po]
     ELSE IF popReady /\ Len(q) > 0
       THEN [exit |-> FALSE, queue |-> Tail(q), next |-> Head(q), popc |-> "q.popc"]
     ELSE [exit |-> FALSE, queue |-> q, next |-> nx, popc |-> po]

\* The switch staging queue[0] whenever the backlog is not empty, popReady or not.
AfterEventRestage(q, nx, pu, po) ==
  LET empty == Len(q) = 0 /\ po = "nil"
      isClosed == pu = "nil"
  IN IF isClosed /\ empty
       THEN [exit |-> TRUE, queue |-> q, next |-> nx, popc |-> po]
     ELSE IF Len(q) > 0
       THEN [exit |-> FALSE, queue |-> Tail(q), next |-> Head(q), popc |-> "q.popc"]
     ELSE [exit |-> FALSE, queue |-> q, next |-> nx, popc |-> po]

\* The switch with empty := len(queue) == 0, whatever is staged on popc.
AfterEventStaged(q, nx, pu, po) ==
  LET empty == Len(q) = 0
      isClosed == pu = "nil"
      popReady == po = "nil"
  IN IF isClosed /\ empty
       THEN [exit |-> TRUE, queue |-> q, next |-> nx, popc |-> po]
     ELSE IF popReady /\ Len(q) > 0
       THEN [exit |-> FALSE, queue |-> Tail(q), next |-> Head(q), popc |-> "q.popc"]
     ELSE [exit |-> FALSE, queue |-> q, next |-> nx, popc |-> po]

\* The code after the select: empty, closed, popReady and the switch.
AfterEvent(q, nx, pu, po) ==
  LET empty == Len(q) = 0 /\ po = "nil"
      isClosed == pu = "nil"
      popReady == po = "nil"
  IN IF isClosed /\ empty
       THEN [exit |-> TRUE, queue |-> q, next |-> nx, popc |-> po]
     ELSE IF popReady /\ Len(q) > 0
       THEN [exit |-> FALSE, queue |-> Tail(q), next |-> Head(q), popc |-> "q.popc"]
     ELSE [exit |-> FALSE, queue |-> q, next |-> nx, popc |-> po]

\* One pass of the loop body after a select case left the locals (q, pu, po).
GoLoop(q, pu, po) ==
  LET r == AfterEvent(q, next, pu, po)
  IN /\ queue' = r.queue
     /\ next' = r.next
     /\ popc' = r.popc
     /\ pushc' = pu
     /\ gpc' = IF r.exit THEN "exit" ELSE "poll"

\* The cases of goqueue's select that are ready when it polls.
GoCases ==
  (IF pushc = "q.pushc" /\ (closed["pushc"] \/ \E p \in Producers : prod[p].pc = "wait")
     THEN {"recv"} ELSE {})
  \cup (IF popc = "q.popc" /\ (\E c \in Consumers : cons[c].pc = "wait")
          THEN {"send"} ELSE {})
  \cup (IF closed["shutdown"] THEN {"shutdown"} ELSE {})

\* A Pop blocked on q.popc, q.shutdown or its context is woken to return (zero, false).
WakeConsFalse(cs) ==
  [c \in Consumers |-> IF cs[c].pc = "wait"
                         THEN [cs[c] EXCEPT !.pc = "ret", !.res = "false"]
                         ELSE cs[c]]

\* A WaitEmpty blocked in its select is woken by q.done to return true.
WakeLifeDone(lf) ==
  [l \in Callers |-> IF lf[l].pc = "wait"
                       THEN [lf[l] EXCEPT !.pc = "ret", !.res = "true"]
                       ELSE lf[l]]

\* close(q.shutdown) leaving the blocked Push calls blocked.
WakeProdShutdownNone(pr) == pr

\* close(q.shutdown) also making a Push that is past its send return ErrQueueShutdown.
WakeProdShutdownSent(pr) ==
  [p \in Producers |-> IF pr[p].pc \in {"wait", "sent"}
                         THEN [pr[p] EXCEPT !.pc = "ret", !.res = "shutdown"]
                         ELSE pr[p]]

\* A Push blocked on q.pushc, q.shutdown or its context is woken to return ErrQueueShutdown.
WakeProdShutdown(pr) ==
  [p \in Producers |-> IF pr[p].pc = "wait"
                         THEN [pr[p] EXCEPT !.pc = "ret", !.res = "shutdown"]
                         ELSE pr[p]]

\* case e, ok := <-pushc with ok: a blocked Push hands over its element.
GoqueueRecv(p) ==
  /\ crashed = "no" /\ gpc = "poll" /\ "recv" \in GoCases
  /\ prod[p].pc = "wait"
  /\ prod' = [prod EXCEPT ![p].pc = "sent"]
  /\ accepted' = Append(accepted, prod[p].e)
  /\ GoLoop(AppendElem(queue, prod[p].e), pushc, popc)
  /\ UNCHANGED <<load, closed, size, total, cons, life, npush, npop, nlife, ncancel, crashed,
                 last, delivered, popped, pushedOK, returned, orderly, pushesAtClose>>

\* case e, ok := <-pushc with !ok: q.pushc is closed, pushc = nil.
GoqueueRecvClosed ==
  /\ crashed = "no" /\ gpc = "poll" /\ "recv" \in GoCases
  /\ closed["pushc"]
  /\ GoLoop(queue, "nil", popc)
  /\ UNCHANGED <<load, closed, size, total, prod, cons, life, npush, npop, nlife, ncancel,
                 crashed, last, accepted, delivered, popped, pushedOK, returned, orderly,
                 pushesAtClose>>

\* case popc <- next: a blocked Pop takes next; popc = nil.
GoqueueSend(c) ==
  /\ crashed = "no" /\ gpc = "poll" /\ "send" \in GoCases
  /\ cons[c].pc = "wait"
  /\ cons' = [cons EXCEPT ![c].pc = "got", ![c].x = next]
  /\ delivered' = Append(delivered, next)
  /\ GoLoop(queue, pushc, "nil")
  /\ UNCHANGED <<load, closed, size, total, prod, life, npush, npop, nlife, ncancel, crashed,
                 last, accepted, popped, pushedOK, returned, orderly, pushesAtClose>>

\* case <-q.shutdown: return.
GoqueueShutdown ==
  /\ crashed = "no" /\ gpc = "poll" /\ "shutdown" \in GoCases
  /\ gpc' = "exit"
  /\ UNCHANGED <<load, closed, size, total, queue, next, pushc, popc, prod, cons, life, npush,
                 npop, nlife, ncancel, crashed, last, accepted, delivered, popped, pushedOK,
                 returned, orderly, pushesAtClose>>

\* No case is ready: goqueue blocks in the select.
GoqueueBlock ==
  /\ crashed = "no" /\ gpc = "poll" /\ GoCases = {}
  /\ gpc' = "wait"
  /\ UNCHANGED <<load, closed, size, total, queue, next, pushc, popc, prod, cons, life, npush,
                 npop, nlife, ncancel, crashed, last, accepted, delivered, popped, pushedOK,
                 returned, orderly, pushesAtClose>>

\* defer close(q.popc): every Pop blocked on q.popc receives (zero, false).
GoqueueClosePopc ==
  /\ crashed = "no" /\ gpc = "exit"
  /\ closed' = [closed EXCEPT !["popc"] = TRUE]
  /\ cons' = WakeConsFalse(cons)
  /\ gpc' = "exit2"
  /\ UNCHANGED <<load, size, total, queue, next, pushc, popc, prod, life, npush, npop, nlife,
                 ncancel, crashed, last, accepted, delivered, popped, pushedOK, returned,
                 orderly, pushesAtClose>>

\* defer close(q.done): every WaitEmpty blocked on q.done is woken.
GoqueueCloseDone ==
  /\ crashed = "no" /\ gpc = "exit2"
  /\ closed' = [closed EXCEPT !["done"] = TRUE]
  /\ life' = WakeLifeDone(life)
  /\ gpc' = "done"
  /\ UNCHANGED <<load, size, total, queue, next, pushc, popc, prod, cons, npush, npop, nlife,
                 ncancel, crashed, last, accepted, delivered, popped, pushedOK, returned,
                 orderly, pushesAtClose>>

Goqueue ==
  \/ \E p \in Producers : GoqueueRecv(p)
  \/ GoqueueRecvClosed
  \/ \E c \in Consumers : GoqueueSend(c)
  \/ GoqueueShutdown
  \/ GoqueueBlock
  \/ GoqueueClosePopc
  \/ GoqueueCloseDone

----------------------------------------------------------------------------
(* Push *)

\* Push's select without its case <-q.shutdown.
PushCasesNoShutdown(cx) ==
  (IF cx THEN {"ctx"} ELSE {})
  \cup (IF closed["pushc"] \/ RecvWaits THEN {"send"} ELSE {})

\* The cases of Push's select that are ready when it polls with context state cx:
\* ctx.Done() is closed, q.shutdown is closed, or the send on q.pushc can proceed
\* (goqueue is blocked receiving from it, or q.pushc is closed and the send panics).
PushCases(cx) ==
  (IF cx THEN {"ctx"} ELSE {})
  \cup (IF closed["shutdown"] THEN {"shutdown"} ELSE {})
  \cup (IF closed["pushc"] \/ RecvWaits THEN {"send"} ELSE {})

\* Producer p may call Push with context state cx.
CanPush(p, cx) ==
  /\ crashed = "no" /\ prod[p].pc = "idle"
  /\ FirstIdle(p, Producers, prod)
  /\ npush < load.push
  /\ CanCancel(cx)

\* Push(ctx, e) by p, its select having reached pc; cx: ctx is canceled.
PushCall(p, cx, pc) ==
  [pc |-> pc, e |-> <<p, npush + 1>>, ctx |-> cx, res |-> "none",
   afterShutdown |-> returned["Shutdown"],
   running |-> ~closed["pushc"] /\ ~closed["shutdown"]]

\* A Close or WaitEmpty call has been made.
Closing ==
  \/ returned["Close"]
  \/ \E l \in Callers : life[l].pc \in {"check", "close", "panic"} /\ life[l].c = "pushc"

\* orderly once a Push call is made.
PushOrderly == orderly /\ ~Closing

\* The Push call r returns res.
PushRet(r, res) == Ret("Push", res, r.e, r.ctx, r.afterShutdown, r.running)

\* case <-ctx.Done(): return ctxerr.E(ctx, ctx.Err())
PushCtx(p) ==
  /\ CanPush(p, TRUE) /\ "ctx" \in PushCases(TRUE)
  /\ last' = PushRet(PushCall(p, TRUE, "idle"), "canceled")
  /\ npush' = npush + 1
  /\ ncancel' = Cancels(TRUE)
  /\ orderly' = PushOrderly
  /\ UNCHANGED <<load, closed, size, total, gpc, queue, next, pushc, popc, prod, cons, life,
                 npop, nlife, crashed, accepted, delivered, popped, pushedOK, returned,
                 pushesAtClose>>

\* case <-q.shutdown: return ErrQueueShutdown
PushShutdown(p, cx) ==
  /\ CanPush(p, cx) /\ "shutdown" \in PushCases(cx)
  /\ last' = PushRet(PushCall(p, cx, "idle"), "shutdown")
  /\ npush' = npush + 1
  /\ ncancel' = Cancels(cx)
  /\ orderly' = PushOrderly
  /\ UNCHANGED <<load, closed, size, total, gpc, queue, next, pushc, popc, prod, cons, life,
                 npop, nlife, crashed, accepted, delivered, popped, pushedOK, returned,
                 pushesAtClose>>

\* case q.pushc <- e: a send on the closed q.pushc panics; otherwise goqueue, blocked
\* in its select, receives e and runs its loop body.
PushSend(p, cx) ==
  /\ CanPush(p, cx) /\ "send" \in PushCases(cx)
  /\ npush' = npush + 1
  /\ ncancel' = Cancels(cx)
  /\ orderly' = PushOrderly
  /\ IF closed["pushc"]
       THEN /\ crashed' = "Push"
            /\ prod' = [prod EXCEPT ![p] = PushCall(p, cx, "panic")]
            /\ UNCHANGED <<accepted, queue, next, popc, pushc, gpc>>
       ELSE /\ prod' = [prod EXCEPT ![p] = PushCall(p, cx, "sent")]
            /\ accepted' = Append(accepted, <<p, npush + 1>>)
            /\ GoLoop(AppendElem(queue, <<p, npush + 1>>), pushc, popc)
            /\ UNCHANGED crashed
  /\ UNCHANGED <<load, closed, size, total, cons, life, npop, nlife, last, delivered, popped,
                 pushedOK, returned, pushesAtClose>>

\* No case is ready: Push blocks in the select.
PushBlock(p) ==
  /\ CanPush(p, FALSE) /\ PushCases(FALSE) = {}
  /\ prod' = [prod EXCEPT ![p] = PushCall(p, FALSE, "wait")]
  /\ npush' = npush + 1
  /\ orderly' = PushOrderly
  /\ UNCHANGED <<load, closed, size, total, gpc, queue, next, pushc, popc, cons, life, npop,
                 nlife, ncancel, crashed, last, accepted, delivered, popped, pushedOK,
                 returned, pushesAtClose>>

\* Push going on to q.size.Add(1) without q.total.Add(1).
PushTotalNone(p) ==
  /\ crashed = "no" /\ prod[p].pc = "sent"
  /\ total' = total
  /\ prod' = [prod EXCEPT ![p].pc = "counted"]
  /\ UNCHANGED <<load, closed, size, gpc, queue, next, pushc, popc, cons, life, npush, npop,
                 nlife, ncancel, crashed, last, accepted, delivered, popped, pushedOK,
                 returned, orderly, pushesAtClose>>

\* Push counting its element twice: q.total.Add(2)
PushTotalTwice(p) ==
  /\ crashed = "no" /\ prod[p].pc = "sent"
  /\ total' = total + 2
  /\ prod' = [prod EXCEPT ![p].pc = "counted"]
  /\ UNCHANGED <<load, closed, size, gpc, queue, next, pushc, popc, cons, life, npush, npop,
                 nlife, ncancel, crashed, last, accepted, delivered, popped, pushedOK,
                 returned, orderly, pushesAtClose>>

\* q.total.Add(1)
PushTotal(p) ==
  /\ crashed = "no" /\ prod[p].pc = "sent"
  /\ total' = total + 1
  /\ prod' = [prod EXCEPT ![p].pc = "counted"]
  /\ UNCHANGED <<load, closed, size, gpc, queue, next, pushc, popc, cons, life, npush, npop,
                 nlife, ncancel, crashed, last, accepted, delivered, popped, pushedOK,
                 returned, orderly, pushesAtClose>>

\* q.size.Add(1); return nil
PushSize(p) ==
  /\ crashed = "no" /\ prod[p].pc = "counted"
  /\ size' = size + 1
  /\ prod' = [prod EXCEPT ![p] = IdleProd]
  /\ last' = PushRet(prod[p], "nil")
  /\ pushedOK' = pushedOK \cup {prod[p].e}
  /\ UNCHANGED <<load, closed, total, gpc, queue, next, pushc, popc, cons, life, npush, npop,
                 nlife, ncancel, crashed, accepted, delivered, popped, returned, orderly,
                 pushesAtClose>>

\* The context of a blocked Push is canceled: case <-ctx.Done() returns the error.
CancelPush(p) ==
  /\ crashed = "no" /\ prod[p].pc = "wait"
  /\ CanCancel(TRUE)
  /\ ncancel' = Cancels(TRUE)
  /\ prod' = [prod EXCEPT ![p] = IdleProd]
  /\ last' = PushRet([prod[p] EXCEPT !.ctx = TRUE], "canceled")
  /\ UNCHANGED <<load, closed, size, total, gpc, queue, next, pushc, popc, cons, life, npush,
                 npop, nlife, crashed, accepted, delivered, popped, pushedOK, returned,
                 orderly, pushesAtClose>>

\* A Push woken by close(q.shutdown) returns ErrQueueShutdown.
PushReturn(p) ==
  /\ crashed = "no" /\ prod[p].pc = "ret"
  /\ prod' = [prod EXCEPT ![p] = IdleProd]
  /\ last' = PushRet(prod[p], prod[p].res)
  /\ UNCHANGED <<load, closed, size, total, gpc, queue, next, pushc, popc, cons, life, npush,
                 npop, nlife, ncancel, crashed, accepted, delivered, popped, pushedOK,
                 returned, orderly, pushesAtClose>>

Push(p) ==
  \/ PushCtx(p)
  \/ \E cx \in BOOLEAN : PushShutdown(p, cx)
  \/ \E cx \in BOOLEAN : PushSend(p, cx)
  \/ PushBlock(p)
  \/ PushTotal(p)
  \/ PushSize(p)
  \/ CancelPush(p)
  \/ PushReturn(p)

----------------------------------------------------------------------------
(* Pop *)

\* Pop's select without its case <-q.shutdown.
PopCasesNoShutdown(cx) ==
  (IF closed["popc"] \/ SendWaits THEN {"recv"} ELSE {})
  \cup (IF cx THEN {"ctx"} ELSE {})

\* Pop's select with the receive from q.popc always ready.
PopCasesEager(cx) ==
  {"recv"}
  \cup (IF closed["shutdown"] THEN {"shutdown"} ELSE {})
  \cup (IF cx THEN {"ctx"} ELSE {})

\* The cases of Pop's select that are ready when it polls with context state cx: the
\* receive from q.popc (goqueue is blocked sending next, or q.popc is closed),
\* q.shutdown, ctx.Done().
PopCases(cx) ==
  (IF closed["popc"] \/ SendWaits THEN {"recv"} ELSE {})
  \cup (IF closed["shutdown"] THEN {"shutdown"} ELSE {})
  \cup (IF cx THEN {"ctx"} ELSE {})

\* Pop subtracting one from q.size whether or not it received an element.
PopSizeAlways(found) == -1

\* Pop leaving q.size as it is.
PopSizeKeep(found) == 0

\* if found { q.size.Add(-1) }
PopSizeDelta(found) == IF found THEN -1 ELSE 0

\* Consumer c may call Pop with context state cx.
CanPop(c, cx) ==
  /\ crashed = "no" /\ cons[c].pc = "idle"
  /\ FirstIdle(c, Consumers, cons)
  /\ npop < load.pop
  /\ CanCancel(cx)

\* Pop(ctx), its select having reached pc with element x.
PopCall(cx, pc, x) ==
  [pc |-> pc, x |-> x, ctx |-> cx, res |-> "none", afterShutdown |-> returned["Shutdown"]]

\* The Pop call r returns (x, open).
PopRet(r, x, open) == Ret("Pop", open, x, r.ctx, r.afterShutdown, FALSE)

\* case x, found := <-q.popc: from the closed q.popc (zero, false) is received and
\* returned; otherwise goqueue, blocked in its select, hands over next.
PopRecv(c, cx) ==
  /\ CanPop(c, cx) /\ "recv" \in PopCases(cx)
  /\ npop' = npop + 1
  /\ ncancel' = Cancels(cx)
  /\ IF closed["popc"]
       THEN /\ size' = size + PopSizeDelta(FALSE)
            /\ last' = PopRet(PopCall(cx, "idle", Zero), Zero, "false")
            /\ UNCHANGED <<cons, delivered, queue, next, popc, pushc, gpc>>
       ELSE /\ cons' = [cons EXCEPT ![c] = PopCall(cx, "got", next)]
            /\ delivered' = Append(delivered, next)
            /\ GoLoop(queue, pushc, "nil")
            /\ UNCHANGED <<last, size>>
  /\ UNCHANGED <<load, closed, total, prod, life, npush, nlife, crashed, accepted, popped,
                 pushedOK, returned, orderly, pushesAtClose>>

\* case <-q.shutdown: return zero, false
PopShutdown(c, cx) ==
  /\ CanPop(c, cx) /\ "shutdown" \in PopCases(cx)
  /\ last' = PopRet(PopCall(cx, "idle", Zero), Zero, "false")
  /\ npop' = npop + 1
  /\ ncancel' = Cancels(cx)
  /\ UNCHANGED <<load, closed, size, total, gpc, queue, next, pushc, popc, prod, cons, life,
                 npush, nlife, crashed, accepted, delivered, popped, pushedOK, returned,
                 orderly, pushesAtClose>>

\* case <-ctx.Done(): return zero, false
PopCtx(c) ==
  /\ CanPop(c, TRUE) /\ "ctx" \in PopCases(TRUE)
  /\ last' = PopRet(PopCall(TRUE, "idle", Zero), Zero, "false")
  /\ npop' = npop + 1
  /\ ncancel' = Cancels(TRUE)
  /\ UNCHANGED <<load, closed, size, total, gpc, queue, next, pushc, popc, prod, cons, life,
                 npush, nlife, crashed, accepted, delivered, popped, pushedOK, returned,
                 orderly, pushesAtClose>>

\* No case is ready: Pop blocks in the select.
PopBlock(c) ==
  /\ CanPop(c, FALSE) /\ PopCases(FALSE) = {}
  /\ cons' = [cons EXCEPT ![c] = PopCall(FALSE, "wait", Zero)]
  /\ npop' = npop + 1
  /\ UNCHANGED <<load, closed, size, total, gpc, queue, next, pushc, popc, prod, life, npush,
                 nlife, ncancel, crashed, last, accepted, delivered, popped, pushedOK,
                 returned, orderly, pushesAtClose>>

\* found: q.size.Add(-1); return x, found
PopSize(c) ==
  /\ crashed = "no" /\ cons[c].pc = "got"
  /\ size' = size + PopSizeDelta(TRUE)
  /\ cons' = [cons EXCEPT ![c] = IdleCons]
  /\ last' = PopRet(cons[c], cons[c].x, "true")
  /\ popped' = popped (+) SetToBag({cons[c].x})
  /\ UNCHANGED <<load, closed, total, gpc, queue, next, pushc, popc, prod, life, npush, npop,
                 nlife, ncancel, crashed, accepted, delivered, pushedOK, returned, orderly,
                 pushesAtClose>>

\* The context of a blocked Pop is canceled: case <-ctx.Done() returns zero, false.
CancelPop(c) ==
  /\ crashed = "no" /\ cons[c].pc = "wait"
  /\ CanCancel(TRUE)
  /\ ncancel' = Cancels(TRUE)
  /\ cons' = [cons EXCEPT ![c] = IdleCons]
  /\ last' = PopRet([cons[c] EXCEPT !.ctx = TRUE], Zero, "false")
  /\ UNCHANGED <<load, closed, size, total, gpc, queue, next, pushc, popc, prod, life, npush,
                 npop, nlife, crashed, accepted, delivered, popped, pushedOK, returned,
                 orderly, pushesAtClose>>

\* A Pop woken by close(q.popc) or close(q.shutdown) returns zero, false.
PopReturn(c) ==
  /\ crashed = "no" /\ cons[c].pc = "ret"
  /\ cons' = [cons EXCEPT ![c] = IdleCons]
  /\ last' = PopRet(cons[c], Zero, cons[c].res)
  /\ UNCHANGED <<load, closed, size, total, gpc, queue, next, pushc, popc, prod, life, npush,
                 npop, nlife, ncancel, crashed, accepted, delivered, popped, pushedOK,
                 returned, orderly, pushesAtClose>>

Pop(c) ==
  \/ \E cx \in BOOLEAN : PopRecv(c, cx)
  \/ \E cx \in BOOLEAN : PopShutdown(c, cx)
  \/ PopCtx(c)
  \/ PopBlock(c)
  \/ PopSize(c)
  \/ CancelPop(c)
  \/ PopReturn(c)

----------------------------------------------------------------------------
(* Close, Shutdown, WaitEmpty *)

\* The channel a call closes first: Close and WaitEmpty q.pushc, Shutdown q.shutdown.
FirstChan(op) == IF op = "Shutdown" THEN "shutdown" ELSE "pushc"

\* Caller l is at closeOnce's select: it calls op (Close(), Shutdown(), or
\* WaitEmpty(ctx) with ctx canceled or not), or it is a WaitEmpty at q.Shutdown().
AtCloseOnce(l, op, cx) ==
  /\ crashed = "no"
  /\ \/ /\ life[l].pc = "idle" /\ nlife < load.life /\ op \in load.ops
        /\ FirstIdle(l, Callers, life)
        /\ cx => (op = "WaitEmpty" /\ ncancel < load.cancel)
     \/ life[l].pc = "check" /\ op = life[l].op /\ cx = life[l].ctx

\* The call of l in closeOnce.
InCloseOnce(l, op, cx) ==
  IF life[l].pc = "idle"
    THEN [pc |-> "check", op |-> op, c |-> FirstChan(op), ctx |-> cx, res |-> "none"]
    ELSE life[l]

\* The calls and the canceled contexts counted once l is in closeOnce.
Called(l) == IF life[l].pc = "idle" THEN nlife + 1 ELSE nlife

\* orderly once l is in closeOnce.
CloseOrderly(l, op) ==
  IF life[l].pc = "idle" /\ FirstChan(op) = "pushc"
    THEN orderly /\ \A p \in Producers : prod[p].pc = "idle"
    ELSE orderly

CalledCancels(l, cx) == IF life[l].pc = "idle" THEN Cancels(cx) ELSE ncancel

\* closeOnce(r.c) returns in call r of caller l: Close() and Shutdown() return;
\* WaitEmpty goes on to its select after Close() and to <-q.done after Shutdown().
CloseOnceReturn(l, r) ==
  /\ life' = [life EXCEPT ![l] =
       IF r.op = "WaitEmpty"
         THEN [r EXCEPT !.pc = IF r.c = "pushc" THEN "select" ELSE "recv"]
         ELSE IdleLife]
  /\ last' = IF r.op = "WaitEmpty" THEN last
             ELSE Ret(r.op, "returned", Zero, FALSE, FALSE, FALSE)
  /\ returned' = [returned EXCEPT ![IF r.c = "pushc" THEN "Close" ELSE "Shutdown"] = TRUE]
  /\ pushesAtClose' = IF r.c = "pushc" /\ ~returned["Close"] THEN npush ELSE pushesAtClose

\* close(q.pushc): a Push blocked in its send panics; goqueue blocked in
\* `<-pushc` receives !ok, sets pushc = nil and runs its loop body.
ClosePushc ==
  /\ closed' = [closed EXCEPT !["pushc"] = TRUE]
  /\ IF \E p \in Producers : prod[p].pc = "wait"
       THEN /\ crashed' = "Push"
            /\ UNCHANGED <<gpc, queue, next, pushc, popc>>
       ELSE /\ UNCHANGED crashed
            /\ IF RecvWaits THEN GoLoop(queue, "nil", popc)
               ELSE UNCHANGED <<gpc, queue, next, pushc, popc>>
  /\ UNCHANGED <<prod, cons>>

\* close(q.shutdown): every goroutine blocked in a select on q.shutdown takes that case.
CloseShutdown ==
  /\ closed' = [closed EXCEPT !["shutdown"] = TRUE]
  /\ prod' = WakeProdShutdown(prod)
  /\ cons' = WakeConsFalse(cons)
  /\ gpc' = IF gpc = "wait" THEN "exit" ELSE gpc
  /\ UNCHANGED <<crashed, queue, next, pushc, popc>>

\* closeOnce: case <-c on a closed channel: return.
CloseOnceClosed(l, op, cx) ==
  /\ AtCloseOnce(l, op, cx)
  /\ closed[InCloseOnce(l, op, cx).c]
  /\ CloseOnceReturn(l, InCloseOnce(l, op, cx))
  /\ nlife' = Called(l)
  /\ ncancel' = CalledCancels(l, cx)
  /\ orderly' = CloseOrderly(l, op)
  /\ UNCHANGED <<load, closed, size, total, gpc, queue, next, pushc, popc, prod, cons, npush,
                 npop, crashed, accepted, delivered, popped, pushedOK>>

\* closeOnce(q.pushc): case <-c receives the element of a Push blocked in its send
\* on q.pushc; closeOnce returns without closing the channel.
CloseOnceRecv(l, op, cx, p) ==
  /\ AtCloseOnce(l, op, cx)
  /\ InCloseOnce(l, op, cx).c = "pushc" /\ ~closed["pushc"]
  /\ prod[p].pc = "wait"
  /\ prod' = [prod EXCEPT ![p].pc = "sent"]
  /\ CloseOnceReturn(l, InCloseOnce(l, op, cx))
  /\ nlife' = Called(l)
  /\ ncancel' = CalledCancels(l, cx)
  /\ orderly' = CloseOrderly(l, op)
  /\ UNCHANGED <<load, closed, size, total, gpc, queue, next, pushc, popc, cons, npush, npop,
                 crashed, accepted, delivered, popped, pushedOK>>

\* closeOnce: the receive is not ready: default.
CloseOnceDefault(l, op, cx) ==
  /\ AtCloseOnce(l, op, cx)
  /\ ~closed[InCloseOnce(l, op, cx).c]
  /\ ~(InCloseOnce(l, op, cx).c = "pushc" /\ \E p \in Producers : prod[p].pc = "wait")
  /\ life' = [life EXCEPT ![l] = [InCloseOnce(l, op, cx) EXCEPT !.pc = "close"]]
  /\ nlife' = Called(l)
  /\ ncancel' = CalledCancels(l, cx)
  /\ orderly' = CloseOrderly(l, op)
  /\ UNCHANGED <<load, closed, size, total, gpc, queue, next, pushc, popc, prod, cons, npush,
                 npop, crashed, last, accepted, delivered, popped, pushedOK, returned,
                 pushesAtClose>>

\* closeOnce: default: close(c). Closing a closed channel panics.
CloseOnceClose(l) ==
  /\ crashed = "no" /\ life[l].pc = "close"
  /\ IF closed[life[l].c]
       THEN /\ crashed' = life[l].op
            /\ life' = [life EXCEPT ![l].pc = "panic"]
            /\ UNCHANGED <<closed, gpc, queue, next, pushc, popc, prod, cons, last, returned,
                           pushesAtClose>>
       ELSE /\ IF life[l].c = "pushc" THEN ClosePushc ELSE CloseShutdown
            /\ CloseOnceReturn(l, life[l])
  /\ UNCHANGED <<load, size, total, npush, npop, nlife, ncancel, accepted, delivered, popped,
                 pushedOK, orderly>>

\* WaitEmpty returning true from its select without receiving from q.done.
WaitEmptyDoneEarly(l) ==
  /\ crashed = "no" /\ life[l].pc = "select"
  /\ life' = [life EXCEPT ![l] = IdleLife]
  /\ last' = Ret("WaitEmpty", "true", Zero, life[l].ctx, FALSE, FALSE)
  /\ UNCHANGED <<load, closed, size, total, gpc, queue, next, pushc, popc, prod, cons, npush,
                 npop, nlife, ncancel, crashed, accepted, delivered, popped, pushedOK,
                 returned, orderly, pushesAtClose>>

\* WaitEmpty: case <-q.done: return true
WaitEmptyDone(l) ==
  /\ crashed = "no" /\ life[l].pc = "select"
  /\ closed["done"]
  /\ life' = [life EXCEPT ![l] = IdleLife]
  /\ last' = Ret("WaitEmpty", "true", Zero, life[l].ctx, FALSE, FALSE)
  /\ UNCHANGED <<load, closed, size, total, gpc, queue, next, pushc, popc, prod, cons, npush,
                 npop, nlife, ncancel, crashed, accepted, delivered, popped, pushedOK,
                 returned, orderly, pushesAtClose>>

\* WaitEmpty: case <-ctx.Done(): q.Shutdown()
WaitEmptyCtx(l) ==
  /\ crashed = "no" /\ life[l].pc = "select"
  /\ life[l].ctx
  /\ life' = [life EXCEPT ![l].pc = "check", ![l].c = "shutdown"]
  /\ UNCHANGED <<load, closed, size, total, gpc, queue, next, pushc, popc, prod, cons, npush,
                 npop, nlife, ncancel, crashed, last, accepted, delivered, popped, pushedOK,
                 returned, orderly, pushesAtClose>>

\* WaitEmpty: no case is ready: it blocks in the select.
WaitEmptyBlock(l) ==
  /\ crashed = "no" /\ life[l].pc = "select"
  /\ ~closed["done"] /\ ~life[l].ctx
  /\ life' = [life EXCEPT ![l].pc = "wait"]
  /\ UNCHANGED <<load, closed, size, total, gpc, queue, next, pushc, popc, prod, cons, npush,
                 npop, nlife, ncancel, crashed, last, accepted, delivered, popped, pushedOK,
                 returned, orderly, pushesAtClose>>

\* The context of a blocked WaitEmpty is canceled: case <-ctx.Done(): q.Shutdown()
CancelWaitEmpty(l) ==
  /\ crashed = "no" /\ life[l].pc = "wait"
  /\ CanCancel(TRUE)
  /\ ncancel' = Cancels(TRUE)
  /\ life' = [life EXCEPT ![l].pc = "check", ![l].c = "shutdown", ![l].ctx = TRUE]
  /\ UNCHANGED <<load, closed, size, total, gpc, queue, next, pushc, popc, prod, cons, npush,
                 npop, nlife, crashed, last, accepted, delivered, popped, pushedOK, returned,
                 orderly, pushesAtClose>>

\* WaitEmpty: <-q.done; return false
WaitEmptyRecv(l) ==
  /\ crashed = "no" /\ life[l].pc = "recv"
  /\ closed["done"]
  /\ life' = [life EXCEPT ![l] = IdleLife]
  /\ last' = Ret("WaitEmpty", "false", Zero, life[l].ctx, FALSE, FALSE)
  /\ UNCHANGED <<load, closed, size, total, gpc, queue, next, pushc, popc, prod, cons, npush,
                 npop, nlife, ncancel, crashed, accepted, delivered, popped, pushedOK,
                 returned, orderly, pushesAtClose>>

\* A WaitEmpty woken by close(q.done) returns true.
WaitEmptyReturn(l) ==
  /\ crashed = "no" /\ life[l].pc = "ret"
  /\ life' = [life EXCEPT ![l] = IdleLife]
  /\ last' = Ret("WaitEmpty", life[l].res, Zero, life[l].ctx, FALSE, FALSE)
  /\ UNCHANGED <<load, closed, size, total, gpc, queue, next, pushc, popc, prod, cons, npush,
                 npop, nlife, ncancel, crashed, accepted, delivered, popped, pushedOK,
                 returned, orderly, pushesAtClose>>

Lifecycle(l) ==
  \/ \E op \in Ops, cx \in BOOLEAN : CloseOnceClosed(l, op, cx)
  \/ \E op \in Ops, cx \in BOOLEAN, p \in Producers : CloseOnceRecv(l, op, cx, p)
  \/ \E op \in Ops, cx \in BOOLEAN : CloseOnceDefault(l, op, cx)
  \/ CloseOnceClose(l)
  \/ WaitEmptyDone(l)
  \/ WaitEmptyCtx(l)
  \/ WaitEmptyBlock(l)
  \/ CancelWaitEmpty(l)
  \/ WaitEmptyRecv(l)
  \/ WaitEmptyReturn(l)

----------------------------------------------------------------------------

Next ==
  \/ Goqueue
  \/ \E p \in Producers : Push(p)
  \/ \E c \in Consumers : Pop(c)
  \/ \E l \in Callers : Lifecycle(l)

Spec == Init /\ [][Next]_vars

\* A step of a goroutine that is running: goqueue, or a call that was made and is not
\* blocked. Making a call and canceling a context are left to the clients.
Running ==
  Next /\ npush' = npush /\ npop' = npop /\ nlife' = nlife /\ ncancel' = ncancel

\* The scheduler runs every goroutine that can run.
FairSpec == Spec /\ WF_vars(Running)

\* Size(): s, t := q.size.Load(), q.total.Load(), no counter changing between the loads.
Size == <<size, total>>

TypeOK ==
  /\ closed \in [Channels -> BOOLEAN]
  /\ size \in Int /\ total \in Nat
  /\ gpc \in {"poll", "wait", "exit", "exit2", "done"}
  /\ pushc \in {"q.pushc", "nil"} /\ popc \in {"q.popc", "nil"}
  /\ \A p \in Producers : prod[p].pc \in {"idle", "wait", "sent", "counted", "ret", "panic"}
  /\ \A c \in Consumers : cons[c].pc \in {"idle", "wait", "got", "ret"}
  /\ \A l \in Callers :
       life[l].pc \in {"idle", "check", "close", "select", "wait", "recv", "ret", "panic"}
  /\ crashed \in {"no", "Push"} \cup Ops

----------------------------------------------------------------------------
(* Properties *)

\* The elements of a sequence.
Range(s) == {s[i] : i \in 1..Len(s)}

\* C1: FIFO. The elements goqueue hands to Pop calls, in the order of the handoffs,
\* are the elements it accepted, in the order it accepted them; every element a Pop
\* returned with open = true was handed off; and the Push calls one producer makes
\* one after the other are accepted in the order of the calls.
C1_FIFO ==
  /\ Len(delivered) <= Len(accepted)
  /\ delivered = SubSeq(accepted, 1, Len(delivered))
  /\ BagToSet(popped) \subseteq Range(delivered)
  /\ \A i, j \in 1..Len(accepted) :
       (i < j /\ accepted[i][1] = accepted[j][1]) => accepted[i][2] < accepted[j][2]

\* Two producers pushed concurrently, their elements were accepted in another order
\* than the calls were made, the backlog held elements, and all were handed off.
C1_Witness ==
  /\ Len(delivered) = MaxPush
  /\ ~closed["shutdown"]
  /\ \E i \in 1..(MaxPush - 1) : accepted[i][2] > accepted[i + 1][2]

\* C2: no loss, no duplication. No element is returned by more than one Pop; and when
\* every Push returned before Close was called, no Shutdown was called, goqueue has
\* exited and no call is in progress, the bag of the elements returned by Pop with
\* open = true is the set of the elements whose Push returned nil.
C2_NoLossNoDup ==
  /\ \A e \in BagToSet(popped) : CopiesIn(e, popped) = 1
  /\ ( /\ orderly /\ ~closed["shutdown"] /\ gpc = "done"
       /\ \A p \in Producers : prod[p].pc = "idle"
       /\ \A c \in Consumers : cons[c].pc = "idle" )
     => popped = SetToBag(pushedOK)

\* Two elements were pushed, Close was called, and the consumers popped until a Pop
\* returned open = false.
C2_Witness ==
  /\ orderly /\ ~closed["shutdown"] /\ gpc = "done" /\ returned["Close"]
  /\ \A p \in Producers : prod[p].pc = "idle"
  /\ \A c \in Consumers : cons[c].pc = "idle"
  /\ Cardinality(pushedOK) = MaxPush - 1
  /\ BagCardinality(popped) = MaxPush - 1
  /\ last.op = "Pop" /\ last.res = "false"

\* C3: close-then-drain. With no Shutdown, a Pop whose context is live returns
\* (zero, false) only once q.pushc is closed and every accepted element was handed
\* to a Pop; when every Push returned before Close was called, the accepted elements
\* are the elements whose Push returned nil; and a Pop is never left blocked on the
\* closed queue: while one is blocked, goqueue is neither blocked nor gone.
C3_CloseThenDrain ==
  /\ (last.op = "Pop" /\ last.res = "false" /\ ~last.ctx /\ ~closed["shutdown"])
       => (closed["pushc"] /\ delivered = accepted /\ last.x = Zero)
  /\ (orderly /\ \A p \in Producers : prod[p].pc = "idle")
       => Range(accepted) = pushedOK
  /\ \A c \in Consumers :
       (cons[c].pc = "wait" /\ closed["pushc"] /\ ~closed["shutdown"])
         => gpc \in {"poll", "exit"}

\* Two elements were pushed, Close returned, two Pops took the elements and the
\* next Pop returned (zero, false).
C3_Witness ==
  /\ orderly /\ returned["Close"] /\ ~closed["shutdown"]
  /\ Len(delivered) = MaxPush - 1
  /\ last.op = "Pop" /\ last.res = "false" /\ ~last.ctx

\* C4: the size counter is never negative.
C4_SizeNonNegative == size >= 0

\* C5: Push counts an element in total and size atomically with its acceptance: no
\* Push is past the handoff of an accepted element with q.total.Add(1) still to run,
\* and none is between q.total.Add(1) and q.size.Add(1).
C5_AtomicCounters ==
  \A p \in Producers :
    /\ ~(prod[p].pc = "sent" /\ prod[p].e \in Range(accepted))
    /\ prod[p].pc # "counted"

\* C6: a Push made with a canceled context on a running queue returns the context's
\* error, and its element is not handed to goqueue nor counted.
C6_CanceledPush ==
  /\ (last.op = "Push" /\ last.ctx /\ last.running) => last.res = "canceled"
  /\ \A p \in Producers :
       (prod[p].ctx /\ prod[p].running) => prod[p].pc \notin {"sent", "counted"}

\* C7: Shutdown discards. A Pop made after a Shutdown call returned neither blocks
\* nor receives an element, and returns (zero, false); and once a Shutdown call
\* returned no handoff can happen: no Pop is blocked and goqueue offers nothing.
C7_ShutdownDiscards ==
  /\ \A c \in Consumers : ~cons[c].afterShutdown
  /\ (last.op = "Pop" /\ last.afterShutdown) => (last.res = "false" /\ last.x = Zero)
  /\ returned["Shutdown"] => (~SendWaits /\ \A c \in Consumers : cons[c].pc # "wait")

\* A Pop made after Shutdown returned (zero, false) while an element was in the
\* backlog and another was staged.
C7_Witness ==
  /\ last.op = "Pop" /\ last.afterShutdown /\ last.res = "false"
  /\ Len(queue) > 0 /\ popc = "q.popc"

C9_CloseSafe ==
  /\ crashed # "Close"
  /\ returned["Close"] => closed["pushc"]

\* C10: Shutdown is idempotent and safe for concurrent use: no Shutdown call panics,
\* and once a Shutdown call has returned q.shutdown is closed.
C10_ShutdownSafe ==
  /\ crashed # "Shutdown"
  /\ returned["Shutdown"] => closed["shutdown"]

\* C11: Close does not discard elements. No Close call consumes an element: every
\* element whose Push is past its send, and every element whose Push returned nil,
\* was received by goqueue.
C11_CloseKeepsElements ==
  /\ \A p \in Producers :
       prod[p].pc \in {"sent", "counted"} => prod[p].e \in Range(accepted)
  /\ pushedOK \subseteq Range(accepted)

\* C12: Push after Close panics. With no Shutdown, a Push with a live context made
\* after a Close call returned does not return, neither nil nor an error: it panics
\* in its select.
C12_PushAfterClosePanics ==
  (~closed["shutdown"] /\ pushesAtClose >= 0) =>
    /\ \A p \in Producers :
         (prod[p].pc # "idle" /\ prod[p].e[2] > pushesAtClose /\ ~prod[p].ctx)
           => prod[p].pc = "panic"
    /\ ~(last.op = "Push" /\ last.x[2] > pushesAtClose /\ ~last.ctx)

\* C13: WaitEmpty never returns before goqueue has exited: when a WaitEmpty call
\* returns or has returned, true or false, q.done is closed and goqueue has ended.
C13_WaitEmptyAfterExit ==
  /\ last.op = "WaitEmpty" => (closed["done"] /\ gpc = "done")
  /\ \A l \in Callers : life[l].pc = "ret" => (closed["done"] /\ gpc = "done")

\* A WaitEmpty call returned true after the pushed element was handed to a Pop.
C13_Witness ==
  /\ last.op = "WaitEmpty" /\ last.res = "true" /\ ~last.ctx
  /\ Len(delivered) = 1 /\ ~closed["shutdown"]

\* C14: a WaitEmpty call made with a canceled context on a queue that holds
\* undelivered elements returns false, and the queue is shut down when it returns.
C14_CanceledWaitEmpty ==
  (last.op = "WaitEmpty" /\ last.ctx /\ Len(delivered) < Len(accepted))
    => (last.res = "false" /\ closed["shutdown"])

\* C15: with no Shutdown, a WaitEmpty call whose context stays live returns true once
\* q.pushc is closed and every accepted element was handed to a Pop: from then on it
\* eventually returns (unless a Push on the closed queue panics), and it never
\* returns false.
C15_WaitEmptyReturnsTrue ==
  /\ [](last.op = "WaitEmpty" /\ ~last.ctx => last.res = "true")
  /\ \A l \in Callers :
       ( /\ life[l].op = "WaitEmpty" /\ life[l].pc # "idle" /\ ~life[l].ctx
         /\ closed["pushc"] /\ delivered = accepted /\ ~closed["shutdown"] )
         ~> (life[l].pc = "idle" \/ life[l].ctx \/ closed["shutdown"] \/ crashed = "Push")

\* C16: total is monotonic and counts every successful Push once. total is the number
\* of Push calls that returned nil or are past q.total.Add(1) and about to; no step
\* lowers it; and the only step that changes it is the q.total.Add(1) of a Push past
\* its send, which raises it by 1.
C16_TotalCounts ==
  /\ [](total = Cardinality(pushedOK)
                 + Cardinality({p \in Producers : prod[p].pc = "counted"}))
  /\ [][ /\ total' >= total
         /\ total' # total =>
              /\ total' = total + 1
              /\ \E p \in Producers : prod[p].pc = "sent" /\ prod'[p].pc = "counted"
         /\ pushedOK' # pushedOK =>
              \E p \in Producers : prod[p].pc = "counted" /\ last'.res = "nil" ]_vars

\* Three Push calls returned nil and total is 3, with a Pop returning after them.
C16_Witness ==
  /\ total = MaxPush /\ Cardinality(pushedOK) = MaxPush
  /\ last.op = "Pop" /\ last.res = "true"

\* C17: accounting at quiescence. When no Push and no Pop call is in progress, Size()
\* returns the number of Push calls that returned nil minus the number of Pop calls
\* that returned open = true, and the number of Push calls that returned nil.
C17_QuiescentSize ==
  ( /\ \A p \in Producers : prod[p].pc = "idle"
    /\ \A c \in Consumers : cons[c].pc = "idle" )
  => Size = <<Cardinality(pushedOK) - BagCardinality(popped), Cardinality(pushedOK)>>

\* Three Push calls returned nil, two Pop calls returned an element, nothing is in
\* progress and no Shutdown was called: Size() returns (1, 3).
C17_Witness ==
  /\ \A p \in Producers : prod[p].pc = "idle"
  /\ \A c \in Consumers : cons[c].pc = "idle"
  /\ ~closed["shutdown"]
  /\ Cardinality(pushedOK) = MaxPush /\ BagCardinality(popped) = MaxPush - 1
  /\ Size = <<1, MaxPush>>

\* The queue is closed and drained: q.pushc is closed and every accepted element was
\* handed to a Pop.
ClosedAndDrained == closed["pushc"] /\ delivered = accepted

\* C18: Pop blocks while nothing can be delivered. A Pop returns open = true only with
\* an element accepted from a Push, and open = false only if the queue is closed and
\* drained, shut down, or its context is done; so on an open queue that is not shut
\* down, with a live context and no element handed to it, it does not return.
C18_PopBlocks ==
  /\ \A c \in Consumers :
       /\ cons[c].pc = "got" => (cons[c].x # Zero /\ cons[c].x \in Range(accepted))
       /\ cons[c].pc = "ret" =>
            (cons[c].res = "false" /\ (closed["shutdown"] \/ ClosedAndDrained))
  /\ (last.op = "Pop" /\ last.res = "true") =>
       (last.x # Zero /\ last.x \in Range(accepted))
  /\ (last.op = "Pop" /\ last.res = "false") =>
       (last.ctx \/ closed["shutdown"] \/ ClosedAndDrained)

\* One Pop returned the only accepted element; another Pop is blocked on the open,
\* empty queue with a live context.
C18_Witness ==
  /\ \E c \in Consumers : cons[c].pc = "wait" /\ ~cons[c].ctx
  /\ ~closed["pushc"] /\ ~closed["shutdown"] /\ ~returned["Close"]
  /\ Len(accepted) = 1 /\ delivered = accepted
  /\ last.op = "Pop" /\ last.res = "true" /\ last.x = accepted[1]

\* C19: a blocked Pop is always released. A Pop blocked in its select eventually leaves
\* it (with the element or with open = false) once a Push has returned nil with an
\* element no Pop has received, unless other consumers take every such element;
\* once a Close call has returned; or once a Shutdown call has returned. A crash of
\* the process ends the obligation.
C19_BlockedPopReleased ==
  \A c \in Consumers :
    /\ (cons[c].pc = "wait" /\ \E e \in pushedOK : e \notin Range(delivered))
         ~> (cons[c].pc # "wait" \/ crashed # "no" \/ pushedOK \subseteq Range(delivered))
    /\ (cons[c].pc = "wait" /\ returned["Close"])
         ~> (cons[c].pc # "wait" \/ crashed # "no")
    /\ (cons[c].pc = "wait" /\ returned["Shutdown"])
         ~> (cons[c].pc # "wait" \/ crashed # "no")

\* A step in which a Pop call returns open = false: from its first poll (shutdown,
\* ctx, or the closed q.popc), by cancellation while blocked, or after being woken by
\* a close.
PopReturnsFalse ==
  \/ npop' = npop + 1 /\ cons' = cons
  \/ \E c \in Consumers : cons[c].pc \in {"wait", "ret"} /\ cons'[c].pc = "idle"

\* C20: a Pop that returns open = false has no effect. It returns the zero value, and
\* the step leaves size, total, the backlog, the staged element and its channel, and
\* the elements handed over and returned as they were; after a Pop ended by its
\* context, a staged element is still staged and was not handed to any Pop.
C20_FailedPopNoEffect ==
  /\ []((last.op = "Pop" /\ last.res = "false") => last.x = Zero)
  /\ [][ PopReturnsFalse =>
           /\ last'.op = "Pop" /\ last'.res = "false" /\ last'.x = Zero
           /\ UNCHANGED <<size, total, queue, next, popc, pushc, gpc, accepted,
                           delivered, popped, closed>> ]_vars

\* A Pop has just returned (zero, false) on its context while the element goqueue
\* staged for delivery is still staged, handed to no Pop.
C20_Witness ==
  /\ last.op = "Pop" /\ last.res = "false" /\ last.ctx /\ last.x = Zero
  /\ ~closed["shutdown"] /\ ~closed["popc"]
  /\ popc = "q.popc" /\ next \in Range(accepted) /\ next \notin Range(delivered)
  /\ size = Len(accepted)

\* A step in which a Push call returns an error: from its first poll (ctx, shutdown),
\* by cancellation while blocked, or after being woken by close(q.shutdown).
PushReturnsError ==
  \/ npush' = npush + 1 /\ prod' = prod
  \/ \E p \in Producers : prod[p].pc \in {"wait", "ret"} /\ prod'[p].pc = "idle"

\* C21: a Push that returns an error has no effect. Every element goqueue accepted
\* belongs to a Push that is past its send or returned nil, every element handed to
\* a Pop was accepted, and a step in which a Push returns an error returns the
\* context's error or ErrQueueShutdown for an element that was not accepted, and
\* leaves total, size, the backlog and the staged element unchanged.
C21_FailedPushNoEffect ==
  /\ [](\A e \in Range(accepted) :
          \/ e \in pushedOK
          \/ \E p \in Producers : prod[p].e = e /\ prod[p].pc \in {"sent", "counted"})
  /\ [](Range(delivered) \subseteq Range(accepted))
  /\ []((last.op = "Push" /\ last.res # "nil") => last.x \notin Range(accepted))
  /\ [][ PushReturnsError =>
           /\ last'.op = "Push" /\ last'.res \in {"canceled", "shutdown"}
           /\ last'.x \notin Range(accepted')
           /\ UNCHANGED <<size, total, queue, next, popc, pushc, gpc, accepted,
                           delivered, popped, pushedOK, closed>> ]_vars

\* A blocked Push has just returned its context's error while the Push of another
\* producer, called later, was accepted and counted.
C21_Witness ==
  /\ last.op = "Push" /\ last.res = "canceled" /\ last.x[2] = 1
  /\ Len(accepted) = 1 /\ accepted[1][2] = 2 /\ last.x \notin Range(accepted)
  /\ total = 1 /\ size = 1

\* A Close, Shutdown or WaitEmpty call has been made, or the process has crashed.
Disturbed == nlife > 0 \/ crashed # "no"

\* C22: producers never wait for consumers. While no Close, Shutdown or WaitEmpty
\* call has been made, no Push is blocked while goqueue is blocked in its select, and
\* a Push call in progress eventually returns nil, unless its context is canceled,
\* whatever the backlog holds and whether or not any Pop is called.
C22_ProducersNeverWait ==
  /\ [](~Disturbed =>
          \A p \in Producers : ~(prod[p].pc = "wait" /\ gpc = "wait"))
  /\ \A p \in Producers :
       (prod[p].pc \in {"wait", "sent", "counted"} /\ ~Disturbed)
         ~> \/ prod[p].pc = "idle" /\ last.op = "Push" /\ last.x[1] = p /\ last.res = "nil"
            \/ prod[p].pc = "idle" /\ last.op = "Push" /\ last.x[1] = p /\ last.ctx
            \/ Disturbed

\* MaxPush Push calls returned nil on the running queue, the last of them just now,
\* and no Pop was ever called: one element is staged, the others are in the backlog.
C22_Witness ==
  /\ npop = 0 /\ ~Disturbed /\ ncancel = 0
  /\ last.op = "Push" /\ last.res = "nil" /\ last.x[2] = MaxPush
  /\ Cardinality(pushedOK) = MaxPush
  /\ Len(queue) = MaxPush - 1 /\ popc = "q.popc"

\* goqueue has returned from its loop (its deferred closes are running or have run).
Exited == gpc \in {"exit", "exit2", "done"}

\* goqueue's locals at a graceful exit: pushc is nil after q.pushc was closed, the
\* backlog is empty, nothing is staged, and every accepted element was handed over.
Drained ==
  /\ pushc = "nil" /\ closed["pushc"]
  /\ queue = <<>> /\ popc = "nil"
  /\ delivered = accepted

\* C23: the dispatch actor exits only for one of two reasons. Whenever goqueue has
\* left its loop, and so whenever q.done is closed, q.shutdown is closed or the queue
\* is producer-closed and drained; q.popc and q.done are closed only by the exited
\* goqueue; and the step that leaves the loop is the shutdown case or ends drained.
C23_ExitReasons ==
  /\ [](Exited => (closed["shutdown"] \/ Drained))
  /\ []((closed["done"] \/ closed["popc"]) => Exited)
  /\ [][ (~Exited /\ Exited') =>
           \/ closed'["shutdown"] /\ UNCHANGED <<queue, next, popc, pushc>>
           \/ Drained' ]_vars

\* goqueue exited gracefully: q.done is closed, no Shutdown was called, and the two
\* accepted elements were both handed to Pops.
C23_Witness ==
  /\ closed["done"] /\ ~closed["shutdown"]
  /\ Len(accepted) = 2 /\ Drained

\* Consumers have stopped calling Pop while an accepted element is undelivered.
NoPopPending ==
  /\ Len(delivered) < Len(accepted)
  /\ \A c \in Consumers : cons[c].pc # "wait"

\* C24: graceful drain is live. Once a Close call has returned, and unless Shutdown
\* is called, the process crashes, or consumers stop calling Pop while an element is
\* undelivered, every accepted element is eventually handed over and goqueue
\* eventually exits and closes q.done.
C24_GracefulDrainLive ==
  returned["Close"]
    ~> \/ closed["done"] /\ delivered = accepted
       \/ closed["shutdown"] \/ crashed # "no" \/ NoPopPending

\* A Shutdown call is in progress or has returned (Shutdown(), or the q.Shutdown() of
\* a WaitEmpty whose context is done).
ShutdownCalled ==
  \/ returned["Shutdown"]
  \/ \E l \in Callers : life[l].pc # "idle" /\ life[l].c = "shutdown"

\* C25: force-stop terminates the actor. After Shutdown is called goqueue eventually
\* exits and closes q.done, whatever the backlog holds and whoever is blocked, and a
\* WaitEmpty whose context is canceled eventually returns. A Push that panics on the
\* closed q.pushc ends the obligation.
C25_ShutdownTerminates ==
  /\ ShutdownCalled ~> (closed["done"] \/ crashed = "Push")
  /\ \A l \in Callers :
       (life[l].op = "WaitEmpty" /\ life[l].pc # "idle" /\ life[l].ctx)
         ~> (life[l].pc = "idle" \/ crashed = "Push")

\* C26: once the shutdown signal is set, pending calls have no further effect. In
\* every step taken with q.shutdown closed, goqueue accepts no element and hands
\* none to a consumer, its backlog and staged element stay as they are, and no Push
\* gets past its send and no Pop past its receive.
C26_NoEffectAfterShutdown ==
  [][ closed["shutdown"] =>
        /\ UNCHANGED <<accepted, delivered, queue, next>>
        /\ \A p \in Producers :
             prod'[p].pc \in {"sent", "counted"} => prod[p].pc \in {"sent", "counted"}
        /\ \A c \in Consumers : cons'[c].pc = "got" => cons[c].pc = "got" ]_vars

\* q.shutdown is closed; a Push that was called on the running queue and blocked has
\* just returned ErrQueueShutdown, and an accepted element is left undelivered.
C26_Witness ==
  /\ closed["shutdown"]
  /\ last.op = "Push" /\ last.res = "shutdown" /\ last.running /\ ~last.ctx
  /\ last.x \notin Range(accepted)
  /\ Len(delivered) < Len(accepted)

\* goqueue has an element staged: its local popc is q.popc, so its select offers next.
Staged == popc = "q.popc"

\* C27: deliver is enabled only when there is something to deliver, and at most one
\* delivery is in flight. Whenever goqueue's popc is q.popc, next is not the zero
\* value and is the one accepted element that follows those already handed over, so
\* it was accepted and not yet delivered; and a staged element is replaced only in a
\* step in which a consumer takes it.
C27_OneDeliveryInFlight ==
  /\ [](Staged =>
          /\ next # Zero
          /\ Len(delivered) < Len(accepted)
          /\ next = accepted[Len(delivered) + 1]
          /\ next \notin Range(delivered)
          /\ next \notin Range(queue))
  /\ [][ (Staged /\ (next' # next \/ popc' # popc)) =>
           delivered' = Append(delivered, next) ]_vars

\* The first element was taken and the second is staged while a third waits in the
\* backlog.
C27_Witness ==
  /\ Staged /\ Len(delivered) = 1 /\ Len(queue) = 1
  /\ next = accepted[2] /\ queue[1] = accepted[3]
  /\ gpc = "wait"

\* The accepted elements not yet handed to a consumer, in order of acceptance.
Undelivered == SubSeq(accepted, Len(delivered) + 1, Len(accepted))

\* C28 as stated: while a delivery is offered but not yet taken, the offered element
\* is still the head of the backlog.
C28_OfferedIsHead ==
  Staged => (Len(queue) > 0 /\ next = Head(queue))

\* C28, amended: the head of the backlog is advanced when the element is staged, not
\* when it is taken. While a delivery is offered, the offered element is held in next
\* and is no longer in the backlog: next followed by the backlog are the undelivered
\* elements; when nothing is offered the backlog alone is.
C28_HeadAdvancedAtStaging ==
  /\ Staged => (next \notin Range(queue) /\ <<next>> \o queue = Undelivered)
  /\ ~Staged => queue = Undelivered

\* Three elements were accepted and none taken: the first is offered, and the backlog
\* holds the other two only.
C28_Witness ==
  /\ Staged /\ delivered = <<>> /\ Len(accepted) = MaxPush
  /\ next = accepted[1]
  /\ queue = SubSeq(accepted, 2, MaxPush)

\* The number of elements goqueue holds: its backlog and the staged element.
Held == Len(queue) + (IF Staged THEN 1 ELSE 0)

\* C29: element conservation in the actor. In every reachable state the number of
\* elements goqueue accepted is the number handed to consumers plus the length of
\* the backlog plus one if an element is staged; every accepted element belongs to
\* a Push that returned nil or is past its send, and a Push past its send does
\* nothing but count the element and return nil.
C29_Conservation ==
  /\ [](Len(accepted) = Len(delivered) + Held)
  /\ [](\A i \in 1..Len(accepted) :
          \/ accepted[i] \in pushedOK
          \/ \E p \in Producers :
               prod[p].pc \in {"sent", "counted"} /\ prod[p].e = accepted[i])
  /\ [][ \A p \in Producers :
           (prod[p].pc \in {"sent", "counted"} /\ prod'[p] # prod[p]) =>
             \/ prod[p].pc = "sent" /\ prod'[p] = [prod[p] EXCEPT !.pc = "counted"]
             \/ /\ prod[p].pc = "counted" /\ prod'[p].pc = "idle"
                /\ prod[p].e \in pushedOK'
                /\ last'.op = "Push" /\ last'.res = "nil" /\ last'.x = prod[p].e ]_vars

\* goqueue is running with three accepted elements, all from Pushes that returned
\* nil: two were handed to consumers, the third is staged and the backlog is empty.
C29_Witness ==
  /\ gpc \in {"poll", "wait"} /\ crashed = "no"
  /\ Len(accepted) = MaxPush /\ Len(delivered) = MaxPush - 1
  /\ Staged /\ queue = <<>>
  /\ Range(accepted) = pushedOK

\* C30: under any interleaving of concurrent Push and Pop calls the size counter is
\* at most the total counter. total exceeds size by the Push calls between their two
\* Adds plus the Pop calls that lowered size; and total never decreases, so the size
\* Size() loads first is at most the total it loads next.
C30_SizeAtMostTotal ==
  /\ [](size <= total)
  /\ [](total - size = Cardinality({p \in Producers : prod[p].pc = "counted"})
                       + BagCardinality(popped))
  /\ [][total' >= total]_vars

\* Two Pushes have raised total, one of them has not raised size yet, while a Pop
\* holds a received element and has not lowered size yet.
C30_Witness ==
  /\ total = 2 /\ size = 1
  /\ \E p \in Producers : prod[p].pc = "counted"
  /\ \E c \in Consumers : cons[c].pc = "got"

\* C31: a true result from WaitEmpty means a graceful drain. When the call that
\* returned last is a WaitEmpty that returned true, every accepted element was handed
\* to a Pop and every element whose Push returned nil was, so nothing was abandoned,
\* whatever other callers ran concurrently.
C31_TrueMeansDrained ==
  (last.op = "WaitEmpty" /\ last.res = "true")
    => (delivered = accepted /\ pushedOK \subseteq Range(delivered))

====
